---- MODULE Spec2Model ----
(***************************************************************************)
(* Model of bin/weectllib/db_actions.py: the interactive database actions  *)
(* create_database, drop_daily and rebuild_daily.                          *)
(*                                                                         *)
(* Each function is split at its external interactions (the y/n prompt,    *)
(* opening the manager, the manager's drop_daily / backfill_day_summary).  *)
(* Printed text is kept as sequences of tokens: the literal parts of a     *)
(* format string and the values substituted into its replacement fields.   *)
(***************************************************************************)
EXTENDS Integers, Sequences, FiniteSets, TLC

\* ------------------------------------------------------------------ bounds
MaxDate == 2
MaxDays == 2
MaxTick == 1

\* nrecs >= 1000 inserts an empty line before the count message
LineBreakRecs == 1000

NoDate == 0
Dates == 1..MaxDate
OptDates == {NoDate} \cup Dates
RecCounts == {0, 1, LineBreakRecs - 1, LineBreakRecs}
DayCounts == 0..MaxDays
Elapsed == 0..(2 * MaxTick)

database_name == "weewx.sdb"
config_path == "weewx.conf"

VARIABLES
    op,        \* function being run: "none", "create", "drop", "rebuild"
    pc,        \* position inside the function, "done" once it has returned or raised
    dry_run,   \* the dry_run argument
    ans,       \* answer of y_or_n, "none" while not yet asked
    from_d,    \* parsed start date (NoDate when absent)
    to_d,      \* parsed stop date (NoDate when absent)
    db,        \* "absent" or "present": does the database exist
    daily,     \* do the daily summary tables hold summaries
    out,       \* lines printed on stdout by the current run
    errout,    \* lines printed on stderr by the current run
    logs,      \* lines passed to log.info by the current run
    calls,     \* manager calls made by the current run, with their outcome
    raised,    \* the current run ended with a propagated exception
    now,       \* time.time(), counted from the start of the run
    t1,        \* the start time taken by the run
    tdiff,     \* the elapsed time measured by the run (-1: not measured)
    nrecs,     \* record count returned by backfill_day_summary
    ndays,     \* day count returned by backfill_day_summary
    prev       \* summary of the previous run

vars == <<op, pc, dry_run, ans, from_d, to_d, db, daily, out, errout, logs,
          calls, raised, now, t1, tdiff, nrecs, ndays, prev>>

\* ------------------------------------------------------------ formatting
\* A literal piece of text.
Lit(s) == [k |-> "lit", s |-> s, n |-> 0]
\* A replacement field "{x}" of an f-string holding a string.
Str(s) == [k |-> "str", s |-> s, n |-> 0]
\* A replacement field "{x}" of an f-string holding an integer.
Num(n) == [k |-> "int", s |-> "", n |-> n]
\* A replacement field "{x:.2f}" of an f-string.
Fix2(n) == [k |-> "f2", s |-> "", n |-> n]
\* A replacement field holding a datetime.date.
DateTok(d) == [k |-> "date", s |-> "", n |-> d]

Range(s) == {s[i] : i \in 1..Len(s)}

MsgDryRunStart == <<Lit("This is a dry run. Nothing will actually be done.")>>
MsgDryRunEnd == <<Lit("This was a dry run. Nothing was actually done.")>>
MsgConfig == <<Lit("The configuration file "), Str(config_path), Lit(" will be used.")>>
MsgAlreadyExists == <<Lit("Database '"), Str(database_name), Lit("' already exists. Nothing done.")>>
MsgCreated == <<Lit("Created database '"), Str(database_name), Lit("'.")>>

MsgProceeding == <<Lit("Proceeding will delete all your daily summaries from database '"),
                   Str(database_name), Lit("'")>>
MsgDropping == <<Lit("Dropping daily summary tables from '"), Str(database_name), Lit("' ... ")>>
MsgDropError == <<Lit("Error '"), Str("OperationalError"), Lit("'")>>
MsgDropFailed == <<Lit("Drop daily summary tables failed for database '"),
                   Str(database_name), Lit("'")>>
MsgDropped(d) == <<Lit("Daily summary tables dropped from database '"), Str(database_name),
                   Lit("' in "), Fix2(d), Lit(" seconds")>>
MsgNoDaily == <<Lit("No daily summaries found in database '"), Str(database_name),
                Lit("'. Nothing done.")>>
MsgNothingDone == <<Lit("Nothing done.")>>

MsgAll == <<Lit("All daily summaries will be rebuilt.")>>
MsgStarting(f) == <<Lit("Daily summaries starting with "), DateTok(f), Lit(" will be rebuilt.")>>
MsgThrough(t) == <<Lit("Daily summaries through "), DateTok(t), Lit(" will be rebuilt.")>>
MsgSingle(f) == <<Lit("Daily summary for "), DateTok(f), Lit(" will be rebuilt.")>>
MsgFromThrough(f, t) == <<Lit("Daily summaries from "), DateTok(f), Lit(" through "),
                          DateTok(t), Lit(", inclusive, will be rebuilt.")>>

MsgRebuilding == <<Lit("Rebuilding daily summaries in database '"), Str(database_name),
                   Lit("' ...")>>
MsgComplete == <<Lit("Rebuild of daily summaries in database '"), Str(database_name),
                 Lit("' complete.")>>
MsgBlank == <<>>
MsgProcessedOne(r, d) == <<Lit("Processed "), Num(r),
                           Lit(" records to rebuild 1 daily summary in "), Fix2(d),
                           Lit(" seconds.")>>
\* Only the first of the two adjacent literals is an f-string; the second is
\* joined to it as plain text, braces included, so d does not appear.
MsgProcessedMany(r, n, d) == <<Lit("Processed "), Num(r), Lit(" records to rebuild "), Num(n),
                               Lit(" daily summaries in "), Lit("{tdiff:.2f} seconds.")>>
MsgUpToDate == <<Lit("Daily summaries up to date in '"), Str(database_name), Lit("'.")>>

\* ------------------------------------------------------- the manager
\* open_manager_with_config(config_dict, db_binding, initialize): the open
\* succeeds when the database exists, or when it may be initialized.
open_ok(d, initialize) == d = "present" \/ initialize
open_db(d, initialize) == IF initialize THEN "present" ELSE d
open_daily(s, initialize) == s \/ initialize

Call(fn, ok) == [fn |-> fn, ok |-> ok]
CallOpen(initialize, ok) == Call(IF initialize THEN "open_initialize" ELSE "open", ok)

\* ------------------------------------------------------- pieces of code
truthy(d) == d # NoDate

\* Lines 24-29, 47-52, 92-97: the common start of the three functions.
preamble(dry) == (IF dry THEN <<MsgDryRunStart>> ELSE <<>>) \o <<MsgConfig>>

\* Lines 80-81.
epilogue(dry) == IF dry THEN <<MsgDryRunEnd>> ELSE <<>>

\* What is kept of a run once the next one starts.
Summary == [op |-> op, dry_run |-> dry_run, raised |-> raised,
            created |-> MsgCreated \in Range(out),
            existed |-> MsgAlreadyExists \in Range(out)]

begin(o, dry, f, t) ==
    /\ pc = "done"
    /\ prev' = Summary
    /\ op' = o
    /\ dry_run' = dry
    /\ ans' = "none"
    /\ from_d' = f
    /\ to_d' = t
    /\ errout' = <<>>
    /\ calls' = <<>>
    /\ raised' = FALSE
    /\ now' = 0
    /\ t1' = 0
    /\ tdiff' = -1
    /\ nrecs' = 0
    /\ ndays' = 0
    /\ UNCHANGED <<db, daily>>

\* ------------------------------------------------------- create_database
create_database_begin ==
    \E dry \in BOOLEAN :
        /\ begin("create", dry, NoDate, NoDate)
        /\ out' = preamble(dry)
        /\ logs' = <<>>
        /\ pc' = "open"

create_retry_plain == FALSE

\* Line 41: the second open allows initialization.
create_retry_initialize == TRUE

create_after_open_ignoring_dry_run(ok, dry) ==
    IF ok THEN "done" ELSE "open_initialize"

create_after_open_always_retry(ok, dry) ==
    IF ~dry THEN "open_initialize" ELSE "done"

\* Lines 33-37: where the function goes after the plain open.
create_after_open(ok, dry) ==
    IF ok THEN "done" ELSE IF ~dry THEN "open_initialize" ELSE "done"

create_database_open ==
    /\ op = "create" /\ pc = "open"
    /\ LET ok == open_ok(db, FALSE) IN
        /\ calls' = Append(calls, CallOpen(FALSE, ok))
        /\ out' = IF ok THEN Append(out, MsgAlreadyExists) ELSE out
        /\ pc' = create_after_open(ok, dry_run)
    /\ \E d \in 0..MaxTick : now' = now + d
    /\ UNCHANGED <<op, dry_run, ans, from_d, to_d, db, daily, errout, logs,
                   raised, t1, tdiff, nrecs, ndays, prev>>

create_database_initialize ==
    /\ op = "create" /\ pc = "open_initialize"
    /\ LET init == create_retry_initialize
           ok == open_ok(db, init) IN
        /\ calls' = Append(calls, CallOpen(init, ok))
        /\ db' = IF ok THEN open_db(db, init) ELSE db
        /\ daily' = IF ok THEN open_daily(daily, init) ELSE daily
        /\ out' = IF ok THEN Append(out, MsgCreated) ELSE out
        /\ raised' = ~ok
    /\ pc' = "done"
    /\ \E d \in 0..MaxTick : now' = now + d
    /\ UNCHANGED <<op, dry_run, ans, from_d, to_d, errout, logs,
                   t1, tdiff, nrecs, ndays, prev>>

\* ------------------------------------------------------- drop_daily
drop_daily_begin ==
    \E dry \in BOOLEAN :
        /\ begin("drop", dry, NoDate, NoDate)
        /\ out' = preamble(dry) \o <<MsgProceeding>>
        /\ logs' = <<>>
        /\ pc' = "prompt"

\* Line 59.
drop_confirmed(a) == a = "y"

\* Line 65.
drop_calls_manager(dry) == ~dry

drop_failed_out_collapsed == <<MsgNoDaily>>

\* Lines 67-69: what the inner handler prints on stdout.
drop_failed_out == <<MsgDropFailed>>

drop_daily_answer ==
    /\ op = "drop" /\ pc = "prompt"
    /\ \E a \in {"y", "n"}, d \in 0..MaxTick :
        /\ ans' = a
        /\ now' = now + d
        /\ IF drop_confirmed(a)
           THEN /\ t1' = now'
                /\ out' = Append(out, MsgDropping)
                /\ pc' = "open"
           ELSE /\ t1' = t1
                /\ out' = Append(out, MsgNothingDone) \o epilogue(dry_run)
                /\ pc' = "done"
    /\ UNCHANGED <<op, dry_run, from_d, to_d, db, daily, errout, logs, calls,
                   raised, tdiff, nrecs, ndays, prev>>

drop_daily_open ==
    /\ op = "drop" /\ pc = "open"
    /\ \E d \in 0..MaxTick :
        LET ok == open_ok(db, FALSE) IN
        /\ now' = now + d
        /\ calls' = Append(calls, CallOpen(FALSE, ok))
        /\ IF ~ok
           THEN \* lines 74-76
                /\ out' = Append(out, MsgNoDaily) \o epilogue(dry_run)
                /\ tdiff' = tdiff
                /\ pc' = "done"
           ELSE IF drop_calls_manager(dry_run)
           THEN /\ out' = out
                /\ tdiff' = tdiff
                /\ pc' = "drop"
           ELSE \* lines 70-73: nothing was raised inside the inner try
                /\ tdiff' = now' - t1
                /\ out' = Append(out, MsgDropped(tdiff')) \o epilogue(dry_run)
                /\ pc' = "done"
    /\ UNCHANGED <<op, dry_run, ans, from_d, to_d, db, daily, errout, logs,
                   raised, t1, nrecs, ndays, prev>>

drop_daily_drop ==
    /\ op = "drop" /\ pc = "drop"
    /\ \E fail \in BOOLEAN, d \in 0..MaxTick :
        /\ now' = now + d
        /\ calls' = Append(calls, Call("drop_daily", ~fail))
        /\ IF fail
           THEN \* lines 67-69
                /\ daily' = daily
                /\ errout' = Append(errout, MsgDropError)
                /\ out' = (out \o drop_failed_out) \o epilogue(dry_run)
                /\ tdiff' = tdiff
           ELSE \* lines 70-73
                /\ daily' = FALSE
                /\ errout' = errout
                /\ tdiff' = now' - t1
                /\ out' = Append(out, MsgDropped(tdiff')) \o epilogue(dry_run)
    /\ pc' = "done"
    /\ UNCHANGED <<op, dry_run, ans, from_d, to_d, db, logs,
                   raised, t1, nrecs, ndays, prev>>

\* ------------------------------------------------------- rebuild_daily
range_msg_no_single_day(f, t) ==
    IF ~truthy(f) /\ ~truthy(t) THEN MsgAll
    ELSE IF truthy(f) /\ ~truthy(t) THEN MsgStarting(f)
    ELSE IF ~truthy(f) /\ truthy(t) THEN MsgThrough(t)
    ELSE MsgFromThrough(f, t)

\* Lines 107-116.
range_msg(f, t) ==
    IF ~truthy(f) /\ ~truthy(t) THEN MsgAll
    ELSE IF truthy(f) /\ ~truthy(t) THEN MsgStarting(f)
    ELSE IF ~truthy(f) /\ truthy(t) THEN MsgThrough(t)
    ELSE IF f = t THEN MsgSingle(f)
    ELSE MsgFromThrough(f, t)

rebuild_declined_inverted(a) == a = "y"

\* Line 121.
rebuild_declined(a) == a = "n"

result_msgs_plural_by_records(r, n, d) ==
    IF r # 0
    THEN (IF r >= LineBreakRecs THEN <<MsgBlank>> ELSE <<>>)
         \o <<IF r = 1 THEN MsgProcessedOne(r, d) ELSE MsgProcessedMany(r, n, d)>>
         \o <<MsgComplete>>
    ELSE <<MsgUpToDate>>

\* Lines 145-159: the lines printed once the backfill has returned.
result_msgs(r, n, d) ==
    IF r # 0
    THEN (IF r >= LineBreakRecs THEN <<MsgBlank>> ELSE <<>>)
         \o <<IF n = 1 THEN MsgProcessedOne(r, d) ELSE MsgProcessedMany(r, n, d)>>
         \o <<MsgComplete>>
    ELSE <<MsgUpToDate>>

rebuild_daily_begin ==
    \E dry \in BOOLEAN, f \in OptDates, t \in OptDates :
        /\ begin("rebuild", dry, f, t)
        /\ out' = Append(preamble(dry), range_msg(f, t))
        /\ logs' = <<range_msg(f, t)>>
        /\ pc' = "prompt"

rebuild_daily_answer ==
    /\ op = "rebuild" /\ pc = "prompt"
    /\ \E a \in {"y", "n"}, d \in 0..MaxTick :
        /\ ans' = a
        /\ now' = now + d
        /\ IF rebuild_declined(a)
           THEN /\ logs' = Append(logs, MsgNothingDone)
                /\ out' = Append(out, MsgNothingDone)
                /\ t1' = t1
                /\ pc' = "done"
           ELSE /\ t1' = now'
                /\ logs' = Append(logs, MsgRebuilding)
                /\ out' = Append(out, MsgRebuilding)
                         \o (IF dry_run THEN <<MsgDryRunEnd>> ELSE <<>>)
                /\ pc' = IF dry_run THEN "done" ELSE "open_initialize"
    /\ UNCHANGED <<op, dry_run, from_d, to_d, db, daily, errout, calls,
                   raised, tdiff, nrecs, ndays, prev>>

rebuild_daily_open ==
    /\ op = "rebuild" /\ pc = "open_initialize"
    /\ \E d \in 0..MaxTick :
        LET ok == open_ok(db, TRUE) IN
        /\ now' = now + d
        /\ calls' = Append(calls, CallOpen(TRUE, ok))
        /\ db' = IF ok THEN open_db(db, TRUE) ELSE db
        /\ daily' = IF ok THEN open_daily(daily, TRUE) ELSE daily
        /\ raised' = ~ok
        /\ pc' = IF ok THEN "backfill" ELSE "done"
    /\ UNCHANGED <<op, dry_run, ans, from_d, to_d, out, errout, logs,
                   t1, tdiff, nrecs, ndays, prev>>

rebuild_daily_backfill ==
    /\ op = "rebuild" /\ pc = "backfill"
    /\ \E r \in RecCounts, n \in DayCounts, d \in 0..MaxTick :
        /\ now' = now + d
        /\ calls' = Append(calls, Call("backfill_day_summary", TRUE))
        /\ nrecs' = r
        /\ ndays' = n
        /\ tdiff' = now' - t1
        /\ logs' = Append(logs, MsgComplete)
        /\ out' = out \o result_msgs(r, n, tdiff')
    /\ pc' = "done"
    /\ UNCHANGED <<op, dry_run, ans, from_d, to_d, db, daily, errout,
                   raised, t1, prev>>

\* ===================================================================
\* Properties
\* ===================================================================
MutatingCalls == {"open_initialize", "drop_daily", "backfill_day_summary"}
CallNames == {calls[i].fn : i \in 1..Len(calls)}
CountCalls(fn) == Cardinality({i \in 1..Len(calls) : calls[i].fn = fn})
Printed(m) == m \in Range(out)

IsDropped(m) == \E d \in Elapsed : m = MsgDropped(d)
IsDropOutcome(m) == m = MsgDropFailed \/ m = MsgNoDaily \/ IsDropped(m)
IsRangeMsg(m) ==
    \/ m = MsgAll
    \/ \E f \in Dates : m = MsgStarting(f) \/ m = MsgThrough(f) \/ m = MsgSingle(f)
    \/ \E f \in Dates, t \in Dates : m = MsgFromThrough(f, t)
IsSingularCount(m) == Lit(" records to rebuild 1 daily summary in ") \in Range(m)
IsPluralCount(m) == Lit(" daily summaries in ") \in Range(m)
IsCount(m) == IsSingularCount(m) \/ IsPluralCount(m)
Lines(P(_)) == {i \in 1..Len(out) : P(out[i])}

\* C1: in a run with dry_run true, no open with initialize=True, no
\* drop_daily() and no backfill_day_summary() is called.
C1_DryRunNoMutation ==
    dry_run => CallNames \cap MutatingCalls = {}

C1_Witness ==
    /\ op = "drop" /\ dry_run /\ ans = "y" /\ pc = "done"
    /\ Len(calls) = 1 /\ calls[1].ok

\* C2: create_database makes no open with initialize=True when the plain
\* open succeeded, and prints "already exists"; when the plain open failed
\* and dry_run is false it makes exactly one open with initialize=True.
C2_CreateCalls ==
    (op = "create" /\ Len(calls) >= 1) =>
        /\ calls[1].fn = "open"
        /\ calls[1].ok =>
            /\ CountCalls("open_initialize") = 0
            /\ Printed(MsgAlreadyExists)
            /\ pc = "done"
        /\ (~calls[1].ok /\ ~dry_run /\ pc = "done") =>
            CountCalls("open_initialize") = 1

C2_Witness ==
    /\ op = "create" /\ pc = "done" /\ ~dry_run
    /\ Len(calls) = 2 /\ ~calls[1].ok /\ calls[2].fn = "open_initialize"

\* C3: a create_database run without dry_run never raises, and when the
\* run before it was also a create_database without dry_run, it reports
\* "already exists".
C3_CreateIdempotent ==
    (op = "create" /\ pc = "done" /\ ~dry_run) =>
        /\ ~raised
        /\ (prev.op = "create" /\ ~prev.dry_run) =>
            /\ ~prev.raised
            /\ Printed(MsgAlreadyExists)
            /\ ~Printed(MsgCreated)

C3_Witness ==
    /\ op = "create" /\ pc = "done" /\ ~dry_run
    /\ prev.op = "create" /\ ~prev.dry_run /\ prev.created
    /\ Printed(MsgAlreadyExists)

\* C4: after the answer 'n', drop_daily and rebuild_daily have returned
\* normally with "Nothing done." and without any manager call, whatever
\* dry_run; no manager call is made unless the answer was 'y'.
C4_DeclinedDoesNothing ==
    (op \in {"drop", "rebuild"}) =>
        /\ (ans = "n") =>
            /\ pc = "done"
            /\ ~raised
            /\ calls = <<>>
            /\ Printed(MsgNothingDone)
        /\ (ans # "y") => calls = <<>>

C4_Witness ==
    op = "rebuild" /\ ans = "n" /\ ~dry_run /\ pc = "done"

\* C5: a confirmed drop_daily returns normally and prints exactly one of
\* the three outcome messages: "No daily summaries found" when the open
\* raised, "Drop daily summary tables failed" when drop_daily() raised.
C5_DropOutcomes ==
    (op = "drop" /\ pc = "done" /\ ans = "y") =>
        /\ ~raised
        /\ Cardinality(Lines(IsDropOutcome)) = 1
        /\ (~calls[1].ok) => Printed(MsgNoDaily)
        /\ (Len(calls) = 2 /\ ~calls[2].ok) => Printed(MsgDropFailed)

C5_Witness ==
    /\ op = "drop" /\ pc = "done" /\ ans = "y"
    /\ Len(calls) = 2 /\ calls[2].fn = "drop_daily" /\ ~calls[2].ok
    /\ Printed(MsgDropFailed)

\* C6: rebuild_daily prints and logs exactly one range description, chosen
\* from (from_d, to_d): all / starting with / through / single day / from
\* .. through; it is there when the prompt is shown.
C6_Expected ==
    CASE from_d = NoDate /\ to_d = NoDate -> MsgAll
      [] from_d # NoDate /\ to_d = NoDate -> MsgStarting(from_d)
      [] from_d = NoDate /\ to_d # NoDate -> MsgThrough(to_d)
      [] from_d # NoDate /\ to_d # NoDate /\ from_d = to_d -> MsgSingle(from_d)
      [] from_d # NoDate /\ to_d # NoDate /\ from_d # to_d -> MsgFromThrough(from_d, to_d)

C6_RangeMessage ==
    (op = "rebuild") =>
        /\ Cardinality(Lines(IsRangeMsg)) = 1
        /\ Printed(C6_Expected)
        /\ logs[1] = C6_Expected
        /\ Cardinality({i \in 1..Len(logs) : IsRangeMsg(logs[i])}) = 1

C6_Witness ==
    /\ op = "rebuild" /\ pc = "prompt" /\ ans = "none"
    /\ from_d # NoDate /\ from_d = to_d
    /\ Printed(MsgSingle(from_d))

\* C7: after the backfill, record_count = 0 gives "up to date" and no
\* count message; otherwise day_count = 1 gives the singular count message
\* and day_count > 1 the plural one with the day count.
C7_ResultMessage ==
    (op = "rebuild" /\ pc = "done" /\ "backfill_day_summary" \in CallNames) =>
        /\ (nrecs = 0) =>
            /\ Printed(MsgUpToDate)
            /\ Lines(IsCount) = {}
        /\ (nrecs # 0) =>
            /\ ~Printed(MsgUpToDate)
            /\ Cardinality(Lines(IsCount)) = 1
        /\ (nrecs # 0 /\ ndays = 1) =>
            /\ Lines(IsSingularCount) # {}
            /\ Lines(IsPluralCount) = {}
        /\ (nrecs # 0 /\ ndays > 1) =>
            /\ Lines(IsSingularCount) = {}
            /\ \E i \in Lines(IsPluralCount) : Num(ndays) \in Range(out[i])

C7_Witness ==
    /\ op = "rebuild" /\ pc = "done" /\ nrecs = LineBreakRecs /\ ndays = 2
    /\ Lines(IsPluralCount) # {}

\* C8: every count message printed by rebuild_daily holds the measured
\* elapsed time and the record count.
C8_CountReportsElapsed ==
    (op = "rebuild" /\ pc = "done") =>
        \A i \in Lines(IsCount) :
            /\ Fix2(tdiff) \in Range(out[i])
            /\ Num(nrecs) \in Range(out[i])

\* C9 as stated: every create_database run that returns normally prints
\* exactly one of "already exists. Nothing done." and "Created database".
C9_AlwaysReports ==
    (op = "create" /\ pc = "done" /\ ~raised) =>
        (Printed(MsgAlreadyExists) /\ ~Printed(MsgCreated))
        \/ (~Printed(MsgAlreadyExists) /\ Printed(MsgCreated))

\* C9 amended: a create_database run that returns normally prints exactly
\* one of the two messages, except that a dry run on an absent database
\* prints neither.
C9_ReportsUnlessDryRunAbsent ==
    (op = "create" /\ pc = "done" /\ ~raised) =>
        IF dry_run /\ ~calls[1].ok
        THEN ~Printed(MsgAlreadyExists) /\ ~Printed(MsgCreated)
        ELSE \/ (Printed(MsgAlreadyExists) /\ ~Printed(MsgCreated))
             \/ (~Printed(MsgAlreadyExists) /\ Printed(MsgCreated))

C9_Witness ==
    /\ op = "create" /\ pc = "done" /\ dry_run
    /\ Len(calls) = 1 /\ ~calls[1].ok
    /\ ~Printed(MsgCreated)

\* C10: drop_daily prints "Daily summary tables dropped" only in a run
\* where the manager's drop_daily() was called and returned without error.
C10_DroppedOnlyAfterDrop ==
    (op = "drop" /\ Lines(IsDropped) # {}) =>
        \E i \in 1..Len(calls) : calls[i] = Call("drop_daily", TRUE)

Init ==
    /\ op = "none"
    /\ pc = "done"
    /\ dry_run = FALSE
    /\ ans = "none"
    /\ from_d = NoDate
    /\ to_d = NoDate
    /\ db \in {"absent", "present"}
    /\ daily \in BOOLEAN
    /\ (daily => db = "present")
    /\ out = <<>>
    /\ errout = <<>>
    /\ logs = <<>>
    /\ calls = <<>>
    /\ raised = FALSE
    /\ now = 0
    /\ t1 = 0
    /\ tdiff = -1
    /\ nrecs = 0
    /\ ndays = 0
    /\ prev = [op |-> "none", dry_run |-> FALSE, raised |-> FALSE,
               created |-> FALSE, existed |-> FALSE]

Next ==
    \/ create_database_begin
    \/ create_database_open
    \/ create_database_initialize
    \/ drop_daily_begin
    \/ drop_daily_answer
    \/ drop_daily_open
    \/ drop_daily_drop
    \/ rebuild_daily_begin
    \/ rebuild_daily_answer
    \/ rebuild_daily_open
    \/ rebuild_daily_backfill

Spec == Init /\ [][Next]_vars
====
